---- MODULE Spec2Model ----
(***************************************************************************)
(* Model of src/macro/mesh.rs: the #[vertex_format] deriving extension.    *)
(* method_body walks the named fields of a struct and, for each, resolves  *)
(* the modifier attribute (find_modifier), decodes the element count and   *)
(* type (decode_count_and_type / decode_type) and pushes one               *)
(* gfx::Attribute expression; Generate evaluates the generated body.       *)
(*                                                                         *)
(* Strings the code slices or tests by prefix (type identifiers, the       *)
(* generated sub_type identifiers) are sequences of one-character strings. *)
(* cx is the extension context: the diagnostics emitted so far, and the    *)
(* attributes that attr::mark_used has marked.                             *)
(***************************************************************************)
EXTENDS Integers, Sequences, FiniteSets, TLC

VARIABLES substr, pc, idx, modifier, statements, cx, result, uint_size, attributes

vars == <<substr, pc, idx, modifier, statements, cx, result, uint_size, attributes>>

----------------------------------------------------------------------------
(* Bounds of the explored inputs.                                          *)

MaxAttrs == 3

MaxLen == 1

MaxFields == 2

----------------------------------------------------------------------------
(* enum Modifier, Option<Modifier>, and its Show / FromStr impls.          *)

None == "None"

Normalized == "Normalized"

AsFloat == "AsFloat"

AsDouble == "AsDouble"

Modifiers == {Normalized, AsFloat, AsDouble}

fmt(m) ==
    CASE m = Normalized -> "normalized"
      [] m = AsFloat -> "as_float"
      [] m = AsDouble -> "as_double"

from_str(src) ==
    CASE src = "normalized" -> Normalized
      [] src = "as_float" -> AsFloat
      [] src = "as_double" -> AsDouble
      [] OTHER -> None

----------------------------------------------------------------------------
(* Diagnostics: cx.span_warn / cx.span_err append to the context.          *)

span_warn(c, msg, arg) ==
    [c EXCEPT !.diags = Append(@, [level |-> "Warning", msg |-> msg, arg |-> arg])]

span_err(c, msg, arg) ==
    [c EXCEPT !.diags = Append(@, [level |-> "Error", msg |-> msg, arg |-> arg])]

mark_used(c, word) == [c EXCEPT !.used = @ \cup {word}]

LitNil == [tag |-> "LitNil"]

LitIntUnsuffixed(n) == [tag |-> "LitInt", val |-> n]

----------------------------------------------------------------------------
(* find_modifier: the closure of the fold, then the fold.                  *)

option_or(a, b) == IF a # None THEN a ELSE b

find_modifier_reset(c, m, attribute) ==
    IF attribute.node = "MetaWord"
    THEN LET new_modifier == from_str(attribute.word) IN
         IF new_modifier = None THEN [value |-> m, cx |-> c]
         ELSE IF m = None
              THEN [value |-> new_modifier, cx |-> mark_used(c, attribute.word)]
              ELSE [value |-> None,
                    cx |-> span_warn(mark_used(c, attribute.word),
                                     "Extra attribute modifier detected",
                                     <<fmt(new_modifier), fmt(m)>>)]
    ELSE [value |-> m, cx |-> c]

find_modifier_keep_last(c, m, attribute) ==
    IF attribute.node = "MetaWord"
    THEN LET new_modifier == from_str(attribute.word) IN
         IF new_modifier = None THEN [value |-> m, cx |-> c]
         ELSE IF m = None
              THEN [value |-> new_modifier, cx |-> mark_used(c, attribute.word)]
              ELSE [value |-> new_modifier,
                    cx |-> span_warn(mark_used(c, attribute.word),
                                     "Extra attribute modifier detected",
                                     <<fmt(new_modifier), fmt(m)>>)]
    ELSE [value |-> m, cx |-> c]

find_modifier_closure(c, m, attribute) ==
    IF attribute.node = "MetaWord"
    THEN LET new_modifier == from_str(attribute.word)
             and_then ==
                 IF new_modifier = None
                 THEN [value |-> None, cx |-> c]
                 ELSE LET c1 == mark_used(c, attribute.word) IN
                      IF m = None
                      THEN [value |-> new_modifier, cx |-> c1]
                      ELSE [value |-> None,
                            cx |-> span_warn(c1, "Extra attribute modifier detected",
                                             <<fmt(new_modifier), fmt(m)>>)]
         IN [value |-> option_or(and_then.value, m), cx |-> and_then.cx]
    ELSE [value |-> m, cx |-> c]

RECURSIVE fold(_, _, _)
fold(c, m, attrs) ==
    IF attrs = << >> THEN [value |-> m, cx |-> c]
    ELSE LET r == find_modifier_closure(c, m, Head(attrs))
         IN fold(r.cx, r.value, Tail(attrs))

find_modifier(c, attrs) == fold(c, None, attrs)

----------------------------------------------------------------------------
(* decode_type.                                                            *)

FloatNames == { <<"f","3","2">>, <<"f","6","4">> }

UnsignedNames == { <<"u","8">>, <<"u","1","6">>, <<"u","3","2">>, <<"u","6","4">>,
                   <<"u","i","n","t">> }

SignedNames == { <<"i","8">>, <<"i","1","6">>, <<"i","3","2">>, <<"i","6","4">>,
                 <<"i","n","t">> }

IntNames == UnsignedNames \cup SignedNames

ScalarNames == FloatNames \cup IntNames

slice_from(s, begin) == SubSeq(s, begin + 1, Len(s))

starts_with(s, prefix) == Len(s) >= Len(prefix) /\ SubSeq(s, 1, Len(prefix)) = prefix

float_kind(c, m) ==
    CASE m \in {None, AsFloat} -> [value |-> "FloatDefault", cx |-> c]
      [] m = AsDouble -> [value |-> "FloatPrecision", cx |-> c]
      [] m = Normalized ->
           [value |-> "",
            cx |-> span_warn(c, "Incompatible float modifier attribute", <<fmt(m)>>)]

sign_of_int_only(ty_str) ==
    IF starts_with(ty_str, <<"i","n">>) THEN "Signed" ELSE "Unsigned"

sign_of(ty_str) ==
    IF starts_with(ty_str, <<"i">>) THEN "Signed" ELSE "Unsigned"

int_kind(c, m) ==
    CASE m = None -> [value |-> "IntRaw", cx |-> c]
      [] m = Normalized -> [value |-> "IntNormalized", cx |-> c]
      [] m = AsFloat -> [value |-> "IntAsFloat", cx |-> c]
      [] m = AsDouble ->
           [value |-> "",
            cx |-> span_warn(c, "Incompatible int modifier attribute", <<fmt(m)>>)]

float_sub_type(ty_str) == <<"F">> \o slice_from(ty_str, 1)

int_sub_type(ty_str) == <<"U">> \o slice_from(ty_str, 1)

decode_type(c, ty_str, m) ==
    IF ty_str \in FloatNames
    THEN LET kind == float_kind(c, m)
         IN [value |-> [tag |-> "Float",
                        kind |-> kind.value,
                        sub_type |-> float_sub_type(ty_str)],
             cx |-> kind.cx]
    ELSE IF ty_str \in IntNames
    THEN LET sign == sign_of(ty_str)
             kind == int_kind(c, m)
         IN [value |-> [tag |-> "Int",
                        kind |-> kind.value,
                        sub_type |-> int_sub_type(ty_str),
                        sign |-> sign],
             cx |-> kind.cx]
    ELSE [value |-> LitNil, cx |-> span_err(c, "Unrecognized component type", ty_str)]

----------------------------------------------------------------------------
(* decode_count_and_type, given the modifier find_modifier returned.       *)
(* c is the context, ty the field's type, m the modifier.  A field type is TyPath(ident), TyFixedLengthVec(pty, len), or another   *)
(* node (TyPtr here).                                                      *)

TyPath(ident) == [node |-> "TyPath", ident |-> ident]

TyFixedLengthVec(pty, len) == [node |-> "TyFixedLengthVec", pty |-> pty, len |-> len]

TyPtr == [node |-> "TyPtr"]

decode_count_and_type_nil_count(c, ty, m) ==
    CASE ty.node = "TyPath" ->
           LET t == decode_type(c, ty.ident, m)
           IN [count |-> LitIntUnsuffixed(1), type |-> t.value, cx |-> t.cx]
      [] ty.node = "TyFixedLengthVec" ->
           IF ty.pty.node = "TyPath"
           THEN LET t == decode_type(c, ty.pty.ident, m)
                IN [count |-> LitIntUnsuffixed(ty.len), type |-> t.value, cx |-> t.cx]
           ELSE [count |-> LitNil, type |-> LitNil,
                 cx |-> span_err(c, "Unsupported fixed vector sub-type", <<ty.pty.node>>)]
      [] OTHER ->
           [count |-> LitNil, type |-> LitNil,
            cx |-> span_err(c, "Unsupported attribute type", <<ty.node>>)]

decode_count_and_type(c, ty, m) ==
    CASE ty.node = "TyPath" ->
           LET t == decode_type(c, ty.ident, m)
           IN [count |-> LitIntUnsuffixed(1), type |-> t.value, cx |-> t.cx]
      [] ty.node = "TyFixedLengthVec" ->
           IF ty.pty.node = "TyPath"
           THEN LET t == decode_type(c, ty.pty.ident, m)
                IN [count |-> LitIntUnsuffixed(ty.len), type |-> t.value, cx |-> t.cx]
           ELSE [count |-> LitIntUnsuffixed(ty.len), type |-> LitNil,
                 cx |-> span_err(c, "Unsupported fixed vector sub-type", <<ty.pty.node>>)]
      [] OTHER ->
           [count |-> LitNil, type |-> LitNil,
            cx |-> span_err(c, "Unsupported attribute type", <<ty.node>>)]

----------------------------------------------------------------------------
(* offset_expr and stride_expr: the generated expressions, and their       *)
(* values for a struct laid out in declaration order with natural          *)
(* alignment.  w is the size of int / uint on the target.  The             *)
(* offset expression takes the address of the field through a null base    *)
(* pointer and reads nothing; the value it yields is the field's offset.   *)

offset_expr(struct_ident, field_ident) ==
    [tag |-> "offset", struct |-> struct_ident, field |-> field_ident]

stride_expr(struct_ident) == [tag |-> "size_of", struct |-> struct_ident]

size_of_scalar(ty_str, w) ==
    CASE ty_str \in { <<"u","8">>, <<"i","8">> } -> 1
      [] ty_str \in { <<"u","1","6">>, <<"i","1","6">> } -> 2
      [] ty_str \in { <<"u","3","2">>, <<"i","3","2">>, <<"f","3","2">> } -> 4
      [] ty_str \in { <<"u","6","4">>, <<"i","6","4">>, <<"f","6","4">> } -> 8
      [] ty_str \in { <<"u","i","n","t">>, <<"i","n","t">> } -> w

RECURSIVE size_of(_, _)
size_of(ty, w) ==
    IF ty.node = "TyPath" THEN size_of_scalar(ty.ident, w)
    ELSE ty.len * size_of(ty.pty, w)

RECURSIVE align_of(_, _)
align_of(ty, w) ==
    IF ty.node = "TyPath" THEN size_of_scalar(ty.ident, w)
    ELSE align_of(ty.pty, w)

align_up(n, a) == ((n + a - 1) \div a) * a

RECURSIVE offset_packed(_, _, _)
offset_packed(fields, k, w) ==
    IF k = 1 THEN 0
    ELSE offset_packed(fields, k - 1, w) + size_of(fields[k - 1].ty, w)

RECURSIVE offset_of(_, _, _)
offset_of(fields, k, w) ==
    IF k = 1 THEN 0
    ELSE align_up(offset_of(fields, k - 1, w) + size_of(fields[k - 1].ty, w),
                  align_of(fields[k].ty, w))

RECURSIVE max_align(_, _, _)
max_align(fields, k, w) ==
    IF k = 0 THEN 1
    ELSE LET a == align_of(fields[k].ty, w)
             b == max_align(fields, k - 1, w)
         IN IF a > b THEN a ELSE b

size_of_struct(fields, w) ==
    LET n == Len(fields) IN
    IF n = 0 THEN 0
    ELSE align_up(offset_of(fields, n, w) + size_of(fields[n].ty, w),
                  max_align(fields, n, w))

----------------------------------------------------------------------------
(* The inputs explored: every single-field struct over all the scalar      *)
(* names and field shapes with up to MaxAttrs attributes; structs of up    *)
(* to MaxFields fields over a smaller set of types; tuple structs and      *)
(* enums.                                                                  *)

MetaWord(w) == [node |-> "MetaWord", word |-> w]

MetaNameValue(w) == [node |-> "MetaNameValue", word |-> w]

AttributeValues ==
    { MetaWord("normalized"), MetaWord("as_float"), MetaWord("as_double"),
      MetaWord("inline"), MetaNameValue("normalized") }

SeqsUpTo(S, n) == UNION { [1..k -> S] : k \in 0..n }

Vec3 == <<"V","e","c","3">>

RecordNames ==
    { <<"u","8">>, <<"i","1","6">>, <<"f","3","2">>, <<"f","6","4">>, <<"i","n","t">>, Vec3 }

ArrayNames == { <<"u","8">>, <<"f","3","2">> }

RecordTys ==
    { TyPath(n) : n \in RecordNames }
    \cup { TyFixedLengthVec(TyPath(n), len) : n \in ArrayNames, len \in 0..MaxLen }
    \cup { TyFixedLengthVec(TyFixedLengthVec(TyPath(<<"f","3","2">>), 2), len) :
             len \in 0..MaxLen }
    \cup { TyPtr }

FieldTys == RecordTys \cup { TyPath(n) : n \in ScalarNames }

RecordAttrs == { << >>, << MetaWord("normalized") >> }

FieldIdents == <<"pos", "normal", "uv", "color", "extra">>

NamedFields(tas) ==
    [k \in 1..Len(tas) |-> [ident |-> FieldIdents[k], ty |-> tas[k][1], attrs |-> tas[k][2]]]

SingleFieldInputs ==
    { [fields |-> "StaticStruct", summary |-> "Named", type_ident |-> "Vertex",
       definition |-> NamedFields(<< <<ty, attrs>> >>)] :
         ty \in FieldTys, attrs \in SeqsUpTo(AttributeValues, MaxAttrs) }

RecordInputs ==
    { [fields |-> "StaticStruct", summary |-> "Named", type_ident |-> "Vertex",
       definition |-> NamedFields(tas)] :
         tas \in SeqsUpTo(RecordTys \X RecordAttrs, MaxFields) }

NonRecordInputs ==
    { [fields |-> "StaticStruct", summary |-> "Unnamed", type_ident |-> "Vertex",
       definition |-> NamedFields(tas)] :
         tas \in SeqsUpTo(RecordTys \X RecordAttrs, 1) }
    \cup { [fields |-> "StaticEnum", summary |-> "Unnamed", type_ident |-> "Vertex",
            definition |-> << >>] }

Inputs == SingleFieldInputs \cup RecordInputs \cup NonRecordInputs

----------------------------------------------------------------------------
(* method_body.                                                            *)

IsNamedStruct(s) == s.fields = "StaticStruct" /\ s.summary = "Named"

NoExpr == [tag |-> "None"]

Init ==
    /\ substr \in Inputs
    /\ pc = "start"
    /\ idx = 0
    /\ modifier = None
    /\ statements = << >>
    /\ cx = [diags |-> << >>, used |-> {}]
    /\ result = NoExpr
    /\ uint_size = 0
    /\ attributes = << >>

ex_struct(ex_count, ex_type, ex_offset, ex_stride, ident) ==
    [buffer |-> "nonself_args[1]",
     elem_count |-> ex_count,
     elem_type |-> ex_type,
     offset |-> ex_offset,
     stride |-> ex_stride,
     name |-> ident]

(* StaticStruct(definition, Named(fields)): let mut at = Vec::with_capacity(n) *)
MethodBodyNamed ==
    /\ pc = "start"
    /\ IsNamedStruct(substr)
    /\ statements' = << [stmt |-> "let", ident |-> "at",
                         capacity |-> Len(substr.definition)] >>
    /\ idx' = 1
    /\ pc' = "loop"
    /\ UNCHANGED <<substr, modifier, cx, result, uint_size, attributes>>

MethodBodyOther_accepts_tuple_struct ==
    /\ pc = "start"
    /\ ~IsNamedStruct(substr)
    /\ IF substr.fields = "StaticStruct"
       THEN /\ statements' = << [stmt |-> "let", ident |-> "at",
                                 capacity |-> Len(substr.definition)] >>
            /\ idx' = 1
            /\ pc' = "loop"
            /\ UNCHANGED <<cx, result>>
       ELSE /\ cx' = span_err(cx, "Unable to implement generate() on a non-structure", << >>)
            /\ result' = LitNil
            /\ pc' = "done"
            /\ UNCHANGED <<idx, statements>>
    /\ UNCHANGED <<substr, modifier, uint_size, attributes>>

(* any other substructure: one error, the nil expression *)
MethodBodyOther ==
    /\ pc = "start"
    /\ ~IsNamedStruct(substr)
    /\ cx' = span_err(cx, "Unable to implement generate() on a non-structure", << >>)
    /\ result' = LitNil
    /\ pc' = "done"
    /\ UNCHANGED <<substr, idx, modifier, statements, uint_size, attributes>>

(* decode_count_and_type, first line: let modifier = find_modifier(...) *)
LoopFindModifier ==
    /\ pc = "loop"
    /\ idx <= Len(substr.definition)
    /\ LET r == find_modifier(cx, substr.definition[idx].attrs)
       IN /\ modifier' = r.value
          /\ cx' = r.cx
    /\ pc' = "decode"
    /\ UNCHANGED <<substr, idx, statements, result, uint_size, attributes>>

LoopDecodePush_stop_on_error ==
    /\ pc = "decode"
    /\ LET def == substr.definition[idx]
           d == decode_count_and_type(cx, def.ty, modifier)
       IN /\ cx' = d.cx
          /\ IF Len(d.cx.diags) > Len(cx.diags)
             THEN /\ statements' = statements
                  /\ idx' = Len(substr.definition) + 1
             ELSE /\ statements' = Append(statements,
                        [stmt |-> "push", ident |-> "at",
                         arg |-> ex_struct(d.count, d.type,
                                           offset_expr(substr.type_ident, def.ident),
                                           stride_expr(substr.type_ident), def.ident)])
                  /\ idx' = idx + 1
    /\ pc' = "loop"
    /\ UNCHANGED <<substr, modifier, result, uint_size, attributes>>

LoopDecodePush_skip_poison ==
    /\ pc = "decode"
    /\ LET def == substr.definition[idx]
           d == decode_count_and_type(cx, def.ty, modifier)
       IN /\ cx' = d.cx
          /\ statements' =
                IF d.type = LitNil THEN statements
                ELSE Append(statements,
                        [stmt |-> "push", ident |-> "at",
                         arg |-> ex_struct(d.count, d.type,
                                           offset_expr(substr.type_ident, def.ident),
                                           stride_expr(substr.type_ident), def.ident)])
    /\ idx' = idx + 1
    /\ pc' = "loop"
    /\ UNCHANGED <<substr, modifier, result, uint_size, attributes>>

(* the rest of decode_count_and_type, then the push of the Attribute *)
LoopDecodePush ==
    /\ pc = "decode"
    /\ LET def == substr.definition[idx]
           d == decode_count_and_type(cx, def.ty, modifier)
           ex_offset == offset_expr(substr.type_ident, def.ident)
           ex_stride == stride_expr(substr.type_ident)
       IN /\ cx' = d.cx
          /\ statements' = Append(statements,
                [stmt |-> "push", ident |-> "at",
                 arg |-> ex_struct(d.count, d.type, ex_offset, ex_stride, def.ident)])
    /\ idx' = idx + 1
    /\ pc' = "loop"
    /\ UNCHANGED <<substr, modifier, result, uint_size, attributes>>

(* cx.expr_block(... statements, Some(at)) *)
ExprBlock ==
    /\ pc = "loop"
    /\ idx > Len(substr.definition)
    /\ result' = [tag |-> "Block", stmts |-> statements, expr |-> "at"]
    /\ pc' = "done"
    /\ UNCHANGED <<substr, idx, modifier, statements, cx, uint_size, attributes>>

----------------------------------------------------------------------------
(* The generated generate(): evaluated only when expansion reported no     *)
(* error, on a target whose int / uint is uint_size = 4 or 8 bytes wide.   *)

ErrorCount(c) == Cardinality({ k \in 1..Len(c.diags) : c.diags[k].level = "Error" })

WarningCount(c) == Cardinality({ k \in 1..Len(c.diags) : c.diags[k].level = "Warning" })

Failed == ErrorCount(cx) > 0

FieldIndex(fields, ident) == CHOOSE k \in 1..Len(fields) : fields[k].ident = ident

eval_offset(fields, ex, w) ==
    offset_of(fields, FieldIndex(fields, ex.field), w)

eval_stride(fields, ex, w) == size_of_struct(fields, w)

Pushed(stmts) == [k \in 1..(Len(stmts) - 1) |-> stmts[k + 1].arg]

Generate ==
    /\ pc = "done"
    /\ result.tag = "Block"
    /\ ~Failed
    /\ \E w \in {4, 8} :
         /\ uint_size' = w
         /\ attributes' =
              [k \in 1..Len(Pushed(result.stmts)) |->
                 LET ex == Pushed(result.stmts)[k]
                 IN [buffer |-> ex.buffer,
                     elem_count |-> ex.elem_count.val,
                     elem_type |-> ex.elem_type,
                     offset |-> eval_offset(substr.definition, ex.offset, w),
                     stride |-> eval_stride(substr.definition, ex.stride, w),
                     name |-> ex.name]]
    /\ pc' = "generated"
    /\ UNCHANGED <<substr, idx, modifier, statements, cx, result>>

Next ==
    \/ MethodBodyNamed
    \/ MethodBodyOther
    \/ LoopFindModifier
    \/ LoopDecodePush
    \/ ExprBlock
    \/ Generate

Spec == Init /\ [][Next]_vars

----------------------------------------------------------------------------
(* Vocabulary of the properties.                                           *)

Fields == substr.definition

EmptyCx == [diags |-> << >>, used |-> {}]

ModifierKeywords == {"normalized", "as_float", "as_double"}

KeywordModifier(w) ==
    CASE w = "normalized" -> Normalized
      [] w = "as_float" -> AsFloat
      [] w = "as_double" -> AsDouble

(* positions of the recognized modifier keywords of an attribute list *)
Recognized(attrs) ==
    { k \in 1..Len(attrs) : attrs[k].node = "MetaWord" /\ attrs[k].word \in ModifierKeywords }

FirstRecognized(attrs) ==
    IF Recognized(attrs) = {} THEN None
    ELSE LET k == CHOOSE i \in Recognized(attrs) : \A j \in Recognized(attrs) : i <= j
         IN KeywordModifier(attrs[k].word)

IsScalarShape(ty) == ty.node = "TyPath"

IsArrayOfPath(ty) == ty.node = "TyFixedLengthVec" /\ ty.pty.node = "TyPath"

ElemName(ty) == IF IsScalarShape(ty) THEN ty.ident ELSE ty.pty.ident

HasRecognizedElem(ty) ==
    (IsScalarShape(ty) \/ IsArrayOfPath(ty)) /\ ElemName(ty) \in ScalarNames

Incompatible(n, m) ==
    \/ n \in FloatNames /\ m = Normalized
    \/ n \in IntNames /\ m = AsDouble

(* the first field has been resolved / has been pushed, and nothing else *)
FirstResolved == pc = "decode" /\ idx = 1

FirstPushed == pc = "loop" /\ idx = 2 /\ Len(statements) = 2

FirstAttr == Pushed(statements)[1]

----------------------------------------------------------------------------
(* C1: a struct with named fields f1..fN yields exactly N descriptors, the *)
(* i-th carrying the name of the i-th field, whether or not any field      *)
(* failed to decode; inside the loop one descriptor per field handled.     *)
C1_OnePerFieldInOrder ==
    /\ (pc \in {"loop", "decode"} => Len(statements) = idx)
    /\ (pc = "done" /\ IsNamedStruct(substr) =>
          /\ result.tag = "Block"
          /\ Len(Pushed(result.stmts)) = Len(Fields)
          /\ \A i \in 1..Len(Fields) : Pushed(result.stmts)[i].name = Fields[i].ident)

C1_Witness ==
    /\ pc = "done" /\ IsNamedStruct(substr) /\ Len(Fields) = 2
    /\ Fields[1].ty = TyPtr /\ Failed
    /\ Pushed(result.stmts)[1].name = "pos" /\ Pushed(result.stmts)[2].name = "normal"

(* C2 as stated: two recognized modifier keywords resolve to no modifier,  *)
(* with exactly one warning.                                               *)
C2_ConflictResolvesToNone ==
    FirstResolved /\ Cardinality(Recognized(Fields[1].attrs)) = 2 =>
        /\ modifier = None
        /\ Len(cx.diags) = 1
        /\ cx.diags[1].level = "Warning"

(* C2 amended: two recognized modifier keywords resolve to the first of    *)
(* them, with exactly one warning, and the field is classified as with     *)
(* that first modifier alone.                                              *)
C2_ConflictKeepsFirst ==
    /\ (FirstResolved /\ Cardinality(Recognized(Fields[1].attrs)) = 2 =>
          /\ modifier = FirstRecognized(Fields[1].attrs)
          /\ modifier # None
          /\ Len(cx.diags) = 1
          /\ cx.diags[1].level = "Warning")
    /\ (FirstPushed /\ Cardinality(Recognized(Fields[1].attrs)) = 2 =>
          FirstAttr.elem_type =
             decode_count_and_type(EmptyCx, Fields[1].ty,
                                   FirstRecognized(Fields[1].attrs)).type)

C2_Witness ==
    /\ FirstResolved
    /\ Fields[1].attrs = << MetaWord("normalized"), MetaWord("inline"), MetaWord("as_float") >>
    /\ modifier = Normalized
    /\ Len(cx.diags) = 1

(* C3: with more than one recognized modifier keyword the first one in     *)
(* annotation order is returned, and each extra one draws a warning that   *)
(* names it and the kept first one.                                        *)
C3_FirstModifierWins ==
    FirstResolved /\ Cardinality(Recognized(Fields[1].attrs)) > 1 =>
        LET attrs == Fields[1].attrs
            extra == Recognized(attrs) \ { CHOOSE i \in Recognized(attrs) :
                                              \A j \in Recognized(attrs) : i <= j }
        IN /\ modifier = FirstRecognized(attrs)
           /\ Len(cx.diags) = Cardinality(extra)
           /\ \A d \in 1..Len(cx.diags) :
                /\ cx.diags[d].level = "Warning"
                /\ cx.diags[d].arg[2] = fmt(FirstRecognized(attrs))
                /\ \E k \in extra :
                     /\ cx.diags[d].arg[1] = attrs[k].word
                     /\ Cardinality({ j \in extra : j <= k }) = d

C3_Witness ==
    /\ FirstResolved
    /\ Fields[1].attrs = << MetaWord("as_double"), MetaWord("normalized"), MetaWord("as_float") >>
    /\ modifier = AsDouble
    /\ Len(cx.diags) = 2

(* C4: a recognized scalar name with a compatible modifier is classified   *)
(* by the rule table, signed exactly for the names that begin with i, and  *)
(* the classifier emits no diagnostic.                                     *)
C4_RuleTable ==
    FirstPushed /\ HasRecognizedElem(Fields[1].ty)
                /\ ~Incompatible(ElemName(Fields[1].ty), modifier) =>
        LET n == ElemName(Fields[1].ty)
            t == FirstAttr.elem_type
        IN /\ n \in FloatNames =>
                /\ t.tag = "Float"
                /\ (modifier \in {None, AsFloat} => t.kind = "FloatDefault")
                /\ (modifier = AsDouble => t.kind = "FloatPrecision")
           /\ n \in IntNames =>
                /\ t.tag = "Int"
                /\ (modifier = None => t.kind = "IntRaw")
                /\ (modifier = Normalized => t.kind = "IntNormalized")
                /\ (modifier = AsFloat => t.kind = "IntAsFloat")
                /\ (n \in SignedNames => t.sign = "Signed")
                /\ (n \in UnsignedNames => t.sign = "Unsigned")
           /\ \A d \in 1..Len(cx.diags) :
                cx.diags[d].msg = "Extra attribute modifier detected"

C4_Witness ==
    /\ FirstPushed
    /\ Fields[1].ty = TyPath(<<"i","1","6">>)
    /\ modifier = Normalized
    /\ FirstAttr.elem_type.kind = "IntNormalized"
    /\ FirstAttr.elem_type.sign = "Signed"
    /\ cx.diags = << >>

(* C5 as stated: a modifier incompatible with the type family yields the   *)
(* poison type and exactly one Error diagnostic, so the derivation fails.  *)
C5_IncompatibleIsError ==
    FirstPushed /\ HasRecognizedElem(Fields[1].ty)
                /\ Cardinality(Recognized(Fields[1].attrs)) = 1
                /\ Incompatible(ElemName(Fields[1].ty), modifier) =>
        /\ FirstAttr.elem_type = LitNil
        /\ ErrorCount(cx) = 1
        /\ Len(cx.diags) = 1
        /\ Failed

(* what one field contributes, computed from that field alone *)
DescriptorAlone(f) ==
    LET m == find_modifier(EmptyCx, f.attrs).value
        d == decode_count_and_type(EmptyCx, f.ty, m)
    IN ex_struct(d.count, d.type, offset_expr(substr.type_ident, f.ident),
                 stride_expr(substr.type_ident), f.ident)

(* a field-scoped failure: unsupported shape, unrecognized component type, *)
(* or a modifier incompatible with the component type                      *)
FieldFails(f) ==
    \/ ~(IsScalarShape(f.ty) \/ IsArrayOfPath(f.ty))
    \/ ~HasRecognizedElem(f.ty)
    \/ Incompatible(ElemName(f.ty), FirstRecognized(f.attrs))

FailureMessages ==
    { "Unrecognized component type", "Unsupported fixed vector sub-type",
      "Unsupported attribute type", "Incompatible float modifier attribute",
      "Incompatible int modifier attribute" }

(* C6: a failure in one field does not abort the derivation: every field   *)
(* still gets its descriptor, at its own position, equal to what that      *)
(* field yields on its own whatever the other fields are, and every        *)
(* failing field's diagnostic is in the output of the one invocation.      *)
C6_FailureIsFieldScoped ==
    pc = "done" /\ IsNamedStruct(substr) /\ (\E i \in 1..Len(Fields) : FieldFails(Fields[i])) =>
        /\ Len(Pushed(result.stmts)) = Len(Fields)
        /\ \A j \in 1..Len(Fields) : Pushed(result.stmts)[j] = DescriptorAlone(Fields[j])
        /\ Cardinality({ d \in 1..Len(cx.diags) : cx.diags[d].msg \in FailureMessages })
             = Cardinality({ i \in 1..Len(Fields) : FieldFails(Fields[i]) })

C6_Witness ==
    /\ pc = "done" /\ IsNamedStruct(substr) /\ Len(Fields) = 2
    /\ Fields[1].ty = TyPath(Vec3)
    /\ Fields[2].ty = TyFixedLengthVec(TyPath(<<"f","3","2">>), 1)
    /\ Fields[2].attrs = << >>
    /\ Pushed(result.stmts)[1].elem_type = LitNil
    /\ Pushed(result.stmts)[2].elem_type.kind = "FloatDefault"
    /\ Pushed(result.stmts)[2].elem_count = LitIntUnsuffixed(1)
    /\ ErrorCount(cx) = 1

(* C7: on anything but a struct with named fields the derivation emits     *)
(* exactly one Error, handles no field, yields no descriptor, and fails.   *)
C7_NonRecordIsFatal ==
    ~IsNamedStruct(substr) =>
        /\ pc \in {"start", "done"}
        /\ statements = << >>
        /\ attributes = << >>
        /\ modifier = None
        /\ cx.used = {}
        /\ (pc = "done" =>
              /\ cx.diags = << [level |-> "Error",
                                msg |-> "Unable to implement generate() on a non-structure",
                                arg |-> << >>] >>
              /\ result = LitNil
              /\ Failed)

C7_Witness ==
    /\ pc = "done"
    /\ substr.fields = "StaticStruct" /\ substr.summary = "Unnamed"
    /\ Len(Fields) = 1 /\ Fields[1].ty = TyPtr
    /\ ErrorCount(cx) = 1

FieldSize(k) == size_of(Fields[k].ty, uint_size)

FieldAlign(k) == align_of(Fields[k].ty, uint_size)

LayoutCommon ==
    /\ Len(attributes) = Len(Fields)
    /\ \A i \in 1..Len(Fields) :
         /\ attributes[i].offset % FieldAlign(i) = 0
         /\ attributes[i].offset + FieldSize(i) <= attributes[i].stride
         /\ attributes[i].stride = attributes[1].stride
    /\ \A i, j \in 1..Len(Fields) : i < j => attributes[i].offset <= attributes[j].offset

CountRule(ty, a) ==
    /\ (IsScalarShape(ty) => a.elem_count = LitIntUnsuffixed(1))
    /\ (IsArrayOfPath(ty) => a.elem_count = LitIntUnsuffixed(ty.len))

(* C9 as stated: a field that is neither a scalar nor a fixed array of a   *)
(* scalar (an array of arrays included) draws an Error and has both its    *)
(* count and its type poisoned; a scalar counts 1, an array of N counts N. *)
C9_UnsupportedPoisonsBoth ==
    FirstPushed =>
        /\ CountRule(Fields[1].ty, FirstAttr)
        /\ (~(IsScalarShape(Fields[1].ty) \/ IsArrayOfPath(Fields[1].ty)) =>
              /\ FirstAttr.elem_count = LitNil
              /\ FirstAttr.elem_type = LitNil
              /\ ErrorCount(cx) = 1)

(* C9 amended: a fixed array whose element type is not a type name draws   *)
(* an Error and has its type poisoned while its count stays the array      *)
(* length; any other unsupported shape draws an Error and has both count   *)
(* and type poisoned; a scalar counts 1, an array of N counts N.           *)
C9_UnsupportedArrayKeepsCount ==
    FirstPushed =>
        /\ CountRule(Fields[1].ty, FirstAttr)
        /\ (Fields[1].ty.node = "TyFixedLengthVec" /\ ~IsArrayOfPath(Fields[1].ty) =>
              /\ FirstAttr.elem_count = LitIntUnsuffixed(Fields[1].ty.len)
              /\ FirstAttr.elem_type = LitNil
              /\ ErrorCount(cx) = 1)
        /\ (Fields[1].ty.node \notin {"TyPath", "TyFixedLengthVec"} =>
              /\ FirstAttr.elem_count = LitNil
              /\ FirstAttr.elem_type = LitNil
              /\ ErrorCount(cx) = 1)

C9_Witness ==
    /\ FirstPushed
    /\ Fields[1].ty = TyFixedLengthVec(TyFixedLengthVec(TyPath(<<"f","3","2">>), 2), 1)
    /\ FirstAttr.elem_count = LitIntUnsuffixed(1)
    /\ FirstAttr.elem_type = LitNil
    /\ ErrorCount(cx) = 1

(* the other name of the same bit width *)
Counterpart(n) ==
    IF n \in FloatNames THEN n
    ELSE IF Head(n) = "u" THEN <<"i">> \o Tail(n)
    ELSE IF n = <<"i","n","t">> THEN <<"u","i","n","t">>
    ELSE IF n = <<"u","i","n","t">> THEN <<"i","n","t">>
    ELSE <<"u">> \o Tail(n)

BitWidth(n) ==
    IF n \in { <<"i","n","t">>, <<"u","i","n","t">> } THEN << >>
    ELSE Tail(n)

(* C10: the width tag of a recognized scalar name depends on its bit       *)
(* width alone: it equals the tag of the name's signed / unsigned          *)
(* counterpart, differs from the tag of every name of another width, and   *)
(* is F32 / F64 for f32 / f64.                                             *)
C10_WidthTagIgnoresSign ==
    FirstPushed /\ HasRecognizedElem(Fields[1].ty) =>
        LET n == ElemName(Fields[1].ty)
            tag == FirstAttr.elem_type.sub_type
        IN /\ tag = decode_type(EmptyCx, Counterpart(n), modifier).value.sub_type
           /\ \A o \in IntNames :
                n \in IntNames /\ BitWidth(o) # BitWidth(n) =>
                   tag # decode_type(EmptyCx, o, modifier).value.sub_type
           /\ (n = <<"f","3","2">> => tag = <<"F","3","2">>)
           /\ (n = <<"f","6","4">> => tag = <<"F","6","4">>)

====
